---- MODULE Spec2Model ----
(***************************************************************************)
(* diskv: a disk backed, cache supported key/value store (src/src/diskv.rs) *)
(* used by worker threads that share one store (src/src/main.rs).           *)
(*                                                                          *)
(* A value is a sequence of bytes.  Option<T> is a sequence of length 0     *)
(* (None) or 1 (Some).  The directory under base_path is the function       *)
(* store from the keys that have a file to the file's bytes; every fs call  *)
(* is one atomic step.  A failing fs::write or fs::remove_file leaves the   *)
(* directory as it was.                                                     *)
(***************************************************************************)
EXTENDS Integers, Sequences, FiniteSets, TLC

\* ------------------------------------------------------------------ bounds
NumKeys == 3
NumWorkers == 2
NumBytes == 1
MaxOps == 3
MaxFaults == 1
MaxPreexisting == 1
\* Options.cache_size_max: supplied by the caller, no default
cache_size_max == 3

Keys == 1..NumKeys
Workers == 1..NumWorkers
\* values of every length up to one more than fits in the cache
MaxValLen == cache_size_max + 1
Values == { [i \in 1..n |-> b] : n \in 1..MaxValLen, b \in 1..NumBytes }

None == << >>
Some(v) == << v >>

\* u32 arithmetic.  The sums stay far below 2^32, and a difference is only
\* taken of a counter and lengths it has counted, so neither wraps.
Add32(a, b) == a + b
Sub32(a, b) == a - b

\* ------------------------------------------------------------ DiskvCache
\* A cache is a record [cache, cache_size]: the HashMap and the counter.
RECURSIVE SumLen(_)
SumLen(m) ==
    IF DOMAIN m = {} THEN 0
    ELSE LET k == CHOOSE x \in DOMAIN m : TRUE
         IN Len(m[k]) + SumLen([x \in DOMAIN m \ {k} |-> m[x]])

CacheNew == [cache |-> << >>, cache_size |-> 0]

CacheGet(c, key) == IF key \in DOMAIN c.cache THEN Some(c.cache[key]) ELSE None

\* a delete that forgets the counter
CacheDelete_NoDecrement(c, key) ==
    IF key \in DOMAIN c.cache
    THEN [cache |-> [x \in DOMAIN c.cache \ {key} |-> c.cache[x]],
          cache_size |-> c.cache_size]
    ELSE c

\* a delete that adjusts the counter but looks the entry up without removing it
CacheDelete_KeepsEntry(c, key) ==
    IF key \in DOMAIN c.cache
    THEN [cache |-> c.cache,
          cache_size |-> Sub32(c.cache_size, Len(c.cache[key]))]
    ELSE c

CacheDelete(c, key) ==
    IF key \in DOMAIN c.cache
    THEN [cache |-> [x \in DOMAIN c.cache \ {key} |-> c.cache[x]],
          cache_size |-> Sub32(c.cache_size, Len(c.cache[key]))]
    ELSE c

RECURSIVE DeleteAll(_, _)
DeleteAll(c, ks) ==
    IF ks = << >> THEN c ELSE DeleteAll(CacheDelete(c, Head(ks)), Tail(ks))

\* the iteration orders of a HashMap: every permutation of its keys
Orders(S) ==
    { o \in [1..Cardinality(S) -> S] : \A i, j \in DOMAIN o : i # j => o[i] # o[j] }

RECURSIVE PrefixLen(_, _, _)
PrefixLen(c, order, i) ==
    IF i = 0 THEN 0 ELSE Add32(PrefixLen(c, order, i - 1), Len(c.cache[order[i]]))

\* the keys the first loop pushes: it stops after the first entry at which
\* cache_size - key_sizes >= val_len, or at the end of the map
KeysToDelete(c, val_len, order) ==
    LET stops == { i \in DOMAIN order :
                     Sub32(c.cache_size, PrefixLen(c, order, i)) >= val_len }
        n == IF stops = {} THEN Len(order)
             ELSE CHOOSE i \in stops : \A j \in stops : i <= j
    IN SubSeq(order, 1, n)

MakeSpaceFor(c, val_len, order) == DeleteAll(c, KeysToDelete(c, val_len, order))

\* a put without the check that follows make_space_for
CachePut_NoSpaceCheck(c, key, val, order) ==
    LET val_len == Len(val)
        c1 == CacheDelete(c, key)
        full == Add32(c1.cache_size, val_len) > cache_size_max
        c2 == IF full THEN MakeSpaceFor(c1, val_len, order) ELSE c1
    IN IF val_len > cache_size_max
       THEN [c |-> c, panicked |-> FALSE, did |-> "ignored"]
       ELSE [c |-> [cache |-> [x \in DOMAIN c2.cache \cup {key} |->
                                  IF x = key THEN val ELSE c2.cache[x]],
                    cache_size |-> Add32(c2.cache_size, val_len)],
             panicked |-> FALSE, did |-> IF full THEN "evict" ELSE "insert"]

\* a put that deletes the old entry before it looks at the length
CachePut_DeleteFirst(c, key, val, order) ==
    LET val_len == Len(val)
        c1 == CacheDelete(c, key)
        full == Add32(c1.cache_size, val_len) > cache_size_max
        c2 == IF full THEN MakeSpaceFor(c1, val_len, order) ELSE c1
    IN IF val_len > cache_size_max
       THEN [c |-> c1, panicked |-> FALSE, did |-> "ignored"]
       ELSE IF Add32(c2.cache_size, val_len) > cache_size_max
       THEN [c |-> c2, panicked |-> TRUE, did |-> "panic"]
       ELSE [c |-> [cache |-> [x \in DOMAIN c2.cache \cup {key} |->
                                  IF x = key THEN val ELSE c2.cache[x]],
                    cache_size |-> Add32(c2.cache_size, val_len)],
             panicked |-> FALSE, did |-> IF full THEN "evict" ELSE "insert"]

\* a put that does not delete the key's old entry first
CachePut_NoDelete(c, key, val, order) ==
    LET val_len == Len(val)
        full == Add32(c.cache_size, val_len) > cache_size_max
        c2 == IF full THEN MakeSpaceFor(c, val_len, order) ELSE c
    IN IF val_len > cache_size_max
       THEN [c |-> c, panicked |-> FALSE, did |-> "ignored"]
       ELSE IF Add32(c2.cache_size, val_len) > cache_size_max
       THEN [c |-> c2, panicked |-> TRUE, did |-> "panic"]
       ELSE [c |-> [cache |-> [x \in DOMAIN c2.cache \cup {key} |->
                                  IF x = key THEN val ELSE c2.cache[x]],
                    cache_size |-> Add32(c2.cache_size, val_len)],
             panicked |-> FALSE,
             did |-> IF full THEN "evict"
                     ELSE IF key \in DOMAIN c.cache THEN "overwrite" ELSE "insert"]

\* DiskvCache::put; order is the iteration order make_space_for meets.
\* The result carries the cache, whether the call panicked, and what it did.
CachePut(c, key, val, order) ==
    LET val_len == Len(val)
        c1 == CacheDelete(c, key)
        full == Add32(c1.cache_size, val_len) > cache_size_max
        c2 == IF full THEN MakeSpaceFor(c1, val_len, order) ELSE c1
        did == IF full THEN "evict"
               ELSE IF key \in DOMAIN c.cache THEN "overwrite" ELSE "insert"
    IN IF val_len > cache_size_max
       THEN [c |-> c, panicked |-> FALSE, did |-> "ignored"]
       ELSE IF Add32(c2.cache_size, val_len) > cache_size_max
       THEN [c |-> c2, panicked |-> TRUE, did |-> "panic"]
       ELSE [c |-> [cache |-> [x \in DOMAIN c2.cache \cup {key} |->
                                  IF x = key THEN val ELSE c2.cache[x]],
                    cache_size |-> Add32(c2.cache_size, val_len)],
             panicked |-> FALSE, did |-> did]

\* ------------------------------------------------------------------ state
VARIABLES
    store,        \* the files under base_path: key -> bytes
    cache,        \* DiskvCache.cache
    cache_size,   \* DiskvCache.cache_size
    writer,       \* the worker holding the RwLock's write guard, or 0
    readers,      \* the workers holding a read guard
    poisoned,     \* the RwLock is poisoned: a writer panicked
    pc,           \* where each worker is in its current call
    op,           \* the Diskv call each worker is in: "put", "get", "delete"
    key,          \* its key
    val,          \* put's val, or the bytes get read from the file
    ret,          \* what the worker's last call returned
    log,          \* history: the lock modes and fs calls of the current call
    did,          \* history: what the current call did to the cache
    settled,      \* history: per key, the last caller put or delete if it
                  \*   returned Ok and no other was invoked since
    expect,       \* history: settled[key] when the get started, while it stands
    nops,         \* calls invoked so far
    faults        \* fs failures so far

vars == << store, cache, cache_size, writer, readers, poisoned, pc, op, key,
           val, ret, log, did, settled, expect, nops, faults >>

Cache == [cache |-> cache, cache_size |-> cache_size]

NoRet == [status |-> "none", val |-> None]
Ok(v) == [status |-> "ok", val |-> v]
Err == [status |-> "err", val |-> None]

Unknown == [kind |-> "unknown", val |-> None]

InFlight(w) == pc[w] # "idle"

\* another worker is inside a caller's put or delete of k
OtherMutator(w, k) ==
    \E u \in Workers \ {w} : InFlight(u) /\ op[u] \in {"put", "delete"} /\ key[u] = k

\* Diskv::new; the directory may already hold files
Init ==
    /\ store \in { f \in UNION { [S -> Values] : S \in SUBSET Keys } :
                     Cardinality(DOMAIN f) <= MaxPreexisting }
    /\ cache = CacheNew.cache
    /\ cache_size = CacheNew.cache_size
    /\ writer = 0
    /\ readers = {}
    /\ poisoned = FALSE
    /\ pc = [w \in Workers |-> "idle"]
    /\ op = [w \in Workers |-> "none"]
    /\ key = [w \in Workers |-> 1]
    /\ val = [w \in Workers |-> << >>]
    /\ ret = [w \in Workers |-> NoRet]
    /\ log = [w \in Workers |-> {}]
    /\ did = [w \in Workers |-> "none"]
    /\ settled = [k \in Keys |->
                    [kind |-> "init",
                     val |-> IF k \in DOMAIN store THEN Some(store[k]) ELSE None]]
    /\ expect = [w \in Workers |-> Unknown]
    /\ nops = 0
    /\ faults = 0

\* ------------------------------------------------------- a call is invoked
Call(w, o, k, v) ==
    /\ pc[w] = "idle"
    /\ nops' = nops + 1
    /\ op' = [op EXCEPT ![w] = o]
    /\ key' = [key EXCEPT ![w] = k]
    /\ val' = [val EXCEPT ![w] = v]
    /\ ret' = [ret EXCEPT ![w] = NoRet]
    /\ log' = [log EXCEPT ![w] = {}]
    /\ did' = [did EXCEPT ![w] = "none"]
    /\ pc' = [pc EXCEPT ![w] = IF o = "put" THEN "put_lock"
                               ELSE IF o = "get" THEN "get_rlock" ELSE "del_lock"]
    /\ settled' = IF o = "get" THEN settled ELSE [settled EXCEPT ![k] = Unknown]
    /\ expect' = [u \in Workers |->
                    IF u = w THEN (IF o = "get" THEN settled[k] ELSE Unknown)
                    ELSE IF o # "get" /\ InFlight(u) /\ op[u] = "get" /\ key[u] = k
                    THEN Unknown ELSE expect[u]]
    /\ UNCHANGED << store, cache, cache_size, writer, readers, poisoned, faults >>

Invoke(w, o, k, v) == nops < MaxOps /\ Call(w, o, k, v)

StartPut(w, k, v) == Invoke(w, "put", k, v)
StartGet(w, k) == Invoke(w, "get", k, << >>)
StartDelete(w, k) == Invoke(w, "delete", k, << >>)

\* a call returns r to its caller
Return(w, r) ==
    /\ pc' = [pc EXCEPT ![w] = "idle"]
    /\ ret' = [ret EXCEPT ![w] = r]
    /\ settled' =
         IF r.status = "ok" /\ op[w] \in {"put", "delete"} /\ ~OtherMutator(w, key[w])
         THEN [settled EXCEPT ![key[w]] =
                 [kind |-> op[w],
                  val |-> IF op[w] = "put" THEN Some(val[w]) ELSE None]]
         ELSE settled

\* a call panics: the thread unwinds and never returns
Panic(w) ==
    /\ pc' = [pc EXCEPT ![w] = "panicked"]
    /\ UNCHANGED << ret, settled >>

Logged(w, e) == log' = [log EXCEPT ![w] = log[w] \cup {e}]

\* a write lock that does not wait for the readers
WriteLock_IgnoresReaders(w, next) ==
    /\ writer = 0
    /\ IF poisoned
       THEN /\ Panic(w)
            /\ UNCHANGED << writer, log >>
       ELSE /\ writer' = w
            /\ pc' = [pc EXCEPT ![w] = next]
            /\ Logged(w, "exclusive")
            /\ UNCHANGED << ret, settled >>
    /\ UNCHANGED << store, cache, cache_size, readers, poisoned, op, key, val,
                    did, expect, nops, faults >>

\* self.cache.write().unwrap()
WriteLock(w, next) ==
    /\ writer = 0
    /\ readers = {}
    /\ IF poisoned
       THEN /\ Panic(w)
            /\ UNCHANGED << writer, log >>
       ELSE /\ writer' = w
            /\ pc' = [pc EXCEPT ![w] = next]
            /\ Logged(w, "exclusive")
            /\ UNCHANGED << ret, settled >>
    /\ UNCHANGED << store, cache, cache_size, readers, poisoned, op, key, val,
                    did, expect, nops, faults >>

\* -------------------------------------------------------------- Diskv::put
\* also the put that Diskv::get calls after a miss (op[w] = "get")
PutLock(w) ==
    /\ pc[w] = "put_lock"
    /\ WriteLock(w, "put_write")

\* what put hands back: get returns Ok(Some(v)) after its put
PutOk(w) == IF op[w] = "get" THEN Ok(Some(val[w])) ELSE Ok(None)

\* a put that drops the cached entry although the write failed
PutWrite_CachesOnError(w) ==
    /\ pc[w] = "put_write"
    /\ \/ /\ store' = [x \in DOMAIN store \cup {key[w]} |->
                         IF x = key[w] THEN val[w] ELSE store[x]]
          /\ pc' = [pc EXCEPT ![w] = "put_cache"]
          /\ Logged(w, "write")
          /\ UNCHANGED << cache, cache_size, writer, ret, settled, faults >>
       \/ /\ faults < MaxFaults
          /\ faults' = faults + 1
          /\ Return(w, Err)
          /\ writer' = 0
          /\ Logged(w, "write_err")
          /\ LET c == CacheDelete(Cache, key[w])
             IN cache' = c.cache /\ cache_size' = c.cache_size
          /\ UNCHANGED store
    /\ UNCHANGED << readers, poisoned, op, key, val, did, expect, nops >>

\* fs::write(base_path.join(key), val), under the write lock
PutWrite(w) ==
    /\ pc[w] = "put_write"
    /\ \/ /\ store' = [x \in DOMAIN store \cup {key[w]} |->
                         IF x = key[w] THEN val[w] ELSE store[x]]
          /\ pc' = [pc EXCEPT ![w] = "put_cache"]
          /\ Logged(w, "write")
          /\ UNCHANGED << writer, ret, settled, faults >>
       \/ /\ faults < MaxFaults
          /\ faults' = faults + 1
          /\ Return(w, Err)
          /\ writer' = 0
          /\ Logged(w, "write_err")
          /\ UNCHANGED store
    /\ UNCHANGED << cache, cache_size, readers, poisoned, op, key, val, did,
                    expect, nops >>

\* Ok(_) => Ok(cache.put(key, cache_val)); the guard is dropped on return,
\* and on a panic, which poisons the lock
PutCache(w) ==
    /\ pc[w] = "put_cache"
    /\ \E order \in Orders(DOMAIN CacheDelete(Cache, key[w]).cache) :
         LET r == CachePut(Cache, key[w], val[w], order)
         IN /\ cache' = r.c.cache
            /\ cache_size' = r.c.cache_size
            /\ did' = [did EXCEPT ![w] = r.did]
            /\ writer' = 0
            /\ IF r.panicked
               THEN Panic(w) /\ poisoned' = TRUE
               ELSE Return(w, PutOk(w)) /\ UNCHANGED poisoned
    /\ UNCHANGED << store, readers, op, key, val, log, expect, nops, faults >>

\* -------------------------------------------------------------- Diskv::get
\* try_get: self.cache.read().unwrap()
GetRLock(w) ==
    /\ pc[w] = "get_rlock"
    /\ writer = 0
    /\ IF poisoned
       THEN /\ Panic(w)
            /\ UNCHANGED << readers, log >>
       ELSE /\ readers' = readers \cup {w}
            /\ pc' = [pc EXCEPT ![w] = "get_lookup"]
            /\ Logged(w, "shared")
            /\ UNCHANGED << ret, settled >>
    /\ UNCHANGED << store, cache, cache_size, writer, poisoned, op, key, val,
                    did, expect, nops, faults >>

\* a get that goes to the file whatever the cache holds
GetLookup_AlwaysReads(w) ==
    /\ pc[w] = "get_lookup"
    /\ readers' = readers \ {w}
    /\ pc' = [pc EXCEPT ![w] = "get_read"]
    /\ did' = [did EXCEPT ![w] = "miss"]
    /\ UNCHANGED << ret, settled >>
    /\ UNCHANGED << store, cache, cache_size, writer, poisoned, op, key, val,
                    log, expect, nops, faults >>

\* a get that keeps its read guard after the lookup
GetLookup_KeepsReadGuard(w) ==
    /\ pc[w] = "get_lookup"
    /\ LET v == CacheGet(Cache, key[w])
       IN IF v # None
          THEN /\ Return(w, Ok(v))
               /\ did' = [did EXCEPT ![w] = "hit"]
          ELSE /\ pc' = [pc EXCEPT ![w] = "get_read"]
               /\ did' = [did EXCEPT ![w] = "miss"]
               /\ UNCHANGED << ret, settled >>
    /\ UNCHANGED << store, cache, cache_size, writer, readers, poisoned, op, key,
                    val, log, expect, nops, faults >>

\* try_get: cache.get(&key), then the read guard is dropped; a hit returns
GetLookup(w) ==
    /\ pc[w] = "get_lookup"
    /\ readers' = readers \ {w}
    /\ LET v == CacheGet(Cache, key[w])
       IN IF v # None
          THEN /\ Return(w, Ok(v))
               /\ did' = [did EXCEPT ![w] = "hit"]
          ELSE /\ pc' = [pc EXCEPT ![w] = "get_read"]
               /\ did' = [did EXCEPT ![w] = "miss"]
               /\ UNCHANGED << ret, settled >>
    /\ UNCHANGED << store, cache, cache_size, writer, poisoned, op, key, val,
                    log, expect, nops, faults >>

\* a get that reports a missing file as an error
GetRead_NotFoundIsError(w) ==
    /\ pc[w] = "get_read"
    /\ \/ /\ key[w] \in DOMAIN store
          /\ val' = [val EXCEPT ![w] = store[key[w]]]
          /\ pc' = [pc EXCEPT ![w] = "put_lock"]
          /\ Logged(w, "read")
          /\ UNCHANGED << ret, settled, faults >>
       \/ /\ key[w] \notin DOMAIN store
          /\ Return(w, Err)
          /\ Logged(w, "read_notfound")
          /\ UNCHANGED << val, faults >>
       \/ /\ faults < MaxFaults
          /\ faults' = faults + 1
          /\ Return(w, Err)
          /\ Logged(w, "read_err")
          /\ UNCHANGED val
    /\ UNCHANGED << store, cache, cache_size, writer, readers, poisoned, op, key,
                    did, expect, nops >>

\* fs::read(base_path.join(key)), with no lock held
GetRead(w) ==
    /\ pc[w] = "get_read"
    /\ \/ /\ key[w] \in DOMAIN store
          /\ val' = [val EXCEPT ![w] = store[key[w]]]
          /\ pc' = [pc EXCEPT ![w] = "put_lock"]
          /\ Logged(w, "read")
          /\ UNCHANGED << ret, settled, faults >>
       \/ /\ key[w] \notin DOMAIN store
          /\ Return(w, Ok(None))
          /\ Logged(w, "read_notfound")
          /\ UNCHANGED << val, faults >>
       \/ /\ faults < MaxFaults
          /\ faults' = faults + 1
          /\ Return(w, Err)
          /\ Logged(w, "read_err")
          /\ UNCHANGED val
    /\ UNCHANGED << store, cache, cache_size, writer, readers, poisoned, op, key,
                    did, expect, nops >>

\* ----------------------------------------------------------- Diskv::delete
DeleteLock(w) ==
    /\ pc[w] = "del_lock"
    /\ WriteLock(w, "del_remove")

\* fs::remove_file(base_path.join(key)), under the write lock
DeleteRemove(w) ==
    /\ pc[w] = "del_remove"
    /\ \/ /\ key[w] \in DOMAIN store
          /\ store' = [x \in DOMAIN store \ {key[w]} |-> store[x]]
          /\ pc' = [pc EXCEPT ![w] = "del_cache"]
          /\ Logged(w, "remove")
          /\ UNCHANGED << writer, ret, settled, faults >>
       \/ /\ key[w] \notin DOMAIN store
          /\ Return(w, Ok(None))
          /\ writer' = 0
          /\ Logged(w, "remove_notfound")
          /\ UNCHANGED << store, faults >>
       \/ /\ faults < MaxFaults
          /\ faults' = faults + 1
          /\ Return(w, Err)
          /\ writer' = 0
          /\ Logged(w, "remove_err")
          /\ UNCHANGED store
    /\ UNCHANGED << cache, cache_size, readers, poisoned, op, key, val, did,
                    expect, nops >>

\* a delete that returns Ok without touching the cache
DeleteCache_Skip(w) ==
    /\ pc[w] = "del_cache"
    /\ writer' = 0
    /\ Return(w, Ok(None))
    /\ UNCHANGED << store, cache, cache_size, readers, poisoned, op, key, val,
                    log, did, expect, nops, faults >>

\* Ok(_) => Ok(cache.delete(key)); the guard is dropped on return
DeleteCache(w) ==
    /\ pc[w] = "del_cache"
    /\ LET c == CacheDelete(Cache, key[w])
       IN /\ cache' = c.cache
          /\ cache_size' = c.cache_size
          /\ did' = [did EXCEPT ![w] =
                       IF key[w] \in DOMAIN cache THEN "removed" ELSE "absent"]
    /\ writer' = 0
    /\ Return(w, Ok(None))
    /\ UNCHANGED << store, readers, poisoned, op, key, val, log, expect, nops,
                    faults >>

\* ----------------------------------------------------------- specification
Next ==
    \/ \E w \in Workers, k \in Keys, v \in Values : StartPut(w, k, v)
    \/ \E w \in Workers, k \in Keys : StartGet(w, k)
    \/ \E w \in Workers, k \in Keys : StartDelete(w, k)
    \/ \E w \in Workers : PutLock(w)
    \/ \E w \in Workers : PutWrite(w)
    \/ \E w \in Workers : PutCache(w)
    \/ \E w \in Workers : GetRLock(w)
    \/ \E w \in Workers : GetLookup(w)
    \/ \E w \in Workers : GetRead(w)
    \/ \E w \in Workers : DeleteLock(w)
    \/ \E w \in Workers : DeleteRemove(w)
    \/ \E w \in Workers : DeleteCache(w)

Spec == Init /\ [][Next]_vars

TypeOK ==
    /\ DOMAIN store \subseteq Keys
    /\ DOMAIN cache \subseteq Keys
    /\ cache_size \in Nat
    /\ writer \in Workers \cup {0}
    /\ readers \subseteq Workers

\* two workers, each on its own keys
KeysOf(w) == { k \in Keys : ((k - 1) % NumWorkers) + 1 = w }

NextDisjoint ==
    \/ \E w \in Workers : \E k \in KeysOf(w), v \in Values : StartPut(w, k, v)
    \/ \E w \in Workers : \E k \in KeysOf(w) : StartGet(w, k)
    \/ \E w \in Workers : \E k \in KeysOf(w) : StartDelete(w, k)
    \/ \E w \in Workers : PutLock(w)
    \/ \E w \in Workers : PutWrite(w)
    \/ \E w \in Workers : PutCache(w)
    \/ \E w \in Workers : GetRLock(w)
    \/ \E w \in Workers : GetLookup(w)
    \/ \E w \in Workers : GetRead(w)
    \/ \E w \in Workers : DeleteLock(w)
    \/ \E w \in Workers : DeleteRemove(w)
    \/ \E w \in Workers : DeleteCache(w)

SpecDisjoint == Init /\ [][NextDisjoint]_vars

\* one worker alone, as in tests::diskv_get_put_get, with longer runs
MaxSeqOps == MaxOps + 2

SeqPut(k, v) == nops < MaxSeqOps /\ Call(1, "put", k, v)
SeqGet(k) == nops < MaxSeqOps /\ Call(1, "get", k, << >>)
SeqDelete(k) == nops < MaxSeqOps /\ Call(1, "delete", k, << >>)

NextSeq ==
    \/ \E k \in Keys, v \in Values : SeqPut(k, v)
    \/ \E k \in Keys : SeqGet(k)
    \/ \E k \in Keys : SeqDelete(k)
    \/ PutLock(1)
    \/ PutWrite(1)
    \/ PutCache(1)
    \/ GetRLock(1)
    \/ GetLookup(1)
    \/ GetRead(1)
    \/ DeleteLock(1)
    \/ DeleteRemove(1)
    \/ DeleteCache(1)

SpecSeq == Init /\ [][NextSeq]_vars

\* ------------------------------------------- DiskvCache called on its own
\* The unit tests call DiskvCache::put, get and delete directly, in any order
\* and with no bound on the number of calls; worker 1 is the test.  Every
\* change Diskv makes to its cache is one of these calls.
InitCache == Init /\ DOMAIN store = {}

CallCache(o, k, v) ==
    /\ pc[1] = "idle"
    /\ op' = [op EXCEPT ![1] = o]
    /\ key' = [key EXCEPT ![1] = k]
    /\ val' = [val EXCEPT ![1] = v]
    /\ UNCHANGED << store, writer, readers, poisoned, log, settled, expect,
                    nops, faults >>

CallCachePut(k, v) ==
    /\ CallCache("cache_put", k, v)
    /\ \E order \in Orders(DOMAIN CacheDelete(Cache, k).cache) :
         LET r == CachePut(Cache, k, v, order)
         IN /\ cache' = r.c.cache
            /\ cache_size' = r.c.cache_size
            /\ did' = [did EXCEPT ![1] = r.did]
            /\ pc' = [pc EXCEPT ![1] = IF r.panicked THEN "panicked" ELSE "idle"]
            /\ ret' = [ret EXCEPT ![1] = IF r.panicked THEN NoRet ELSE Ok(None)]

CallCacheGet(k) ==
    /\ CallCache("cache_get", k, << >>)
    /\ ret' = [ret EXCEPT ![1] = Ok(CacheGet(Cache, k))]
    /\ did' = [did EXCEPT ![1] = IF k \in DOMAIN cache THEN "hit" ELSE "miss"]
    /\ UNCHANGED << cache, cache_size, pc >>

CallCacheDelete(k) ==
    /\ CallCache("cache_delete", k, << >>)
    /\ LET c == CacheDelete(Cache, k)
       IN cache' = c.cache /\ cache_size' = c.cache_size
    /\ did' = [did EXCEPT ![1] = IF k \in DOMAIN cache THEN "removed" ELSE "absent"]
    /\ ret' = [ret EXCEPT ![1] = Ok(None)]
    /\ UNCHANGED pc

NextCache ==
    \/ \E k \in Keys, v \in Values : CallCachePut(k, v)
    \/ \E k \in Keys : CallCacheGet(k)
    \/ \E k \in Keys : CallCacheDelete(k)

SpecCache == InitCache /\ [][NextCache]_vars

\* ------------------------------------------------------------------ claims
\* what fs::read finds for k
FileOf(k) == IF k \in DOMAIN store THEN Some(store[k]) ELSE None

\* worker w's last call was a get that returned Ok
GotOk(w) == pc[w] = "idle" /\ op[w] = "get" /\ ret[w].status = "ok"

\* worker w's call returns in this step
Returns(w) == InFlight(w) /\ pc'[w] = "idle"

\* C1: a get(k) that starts after put(k, v) returned Ok, with no delete(k) and
\* no other put(k, _) invoked since that put was invoked, returns Some(v),
\* whatever the length of v.
C1_RoundTrip ==
    \A w \in Workers :
        GotOk(w) /\ expect[w].kind = "put" => ret[w].val = expect[w].val

\* C2: a get(k) that starts after delete(k) returned Ok, with no put(k, _)
\* invoked since, returns None, whatever other workers' gets are doing.
C2_DeleteDurable ==
    \A w \in Workers :
        GotOk(w) /\ expect[w].kind = "delete" => ret[w].val = None

\* C3: the lengths of the cached values sum to at most cache_size_max, and no
\* cached value is longer than cache_size_max.
C3_CacheBound ==
    /\ SumLen(cache) <= cache_size_max
    /\ \A k \in DOMAIN cache : Len(cache[k]) <= cache_size_max

\* a put that had to make space has returned, and a value fills the cache
C3_Witness ==
    \E w \in Workers :
        /\ pc[w] = "idle" /\ did[w] = "evict"
        /\ key[w] \in DOMAIN cache
        /\ SumLen(cache) = cache_size_max

\* C4: cache_size is the sum of the lengths of the values in the cache map.
C4_NoDrift == cache_size = SumLen(cache)

\* a put has replaced a cached value, and the cache holds more than one key
C4_Witness ==
    \E w \in Workers :
        /\ pc[w] = "idle" /\ did[w] = "overwrite"
        /\ Cardinality(DOMAIN cache) > 1
        /\ cache_size > 0

\* C5: with two workers on disjoint keys no worker aborts, every get returns
\* what the worker's latest put or delete of the key left (Some(v) or None),
\* once both are idle the files are what those calls left, and cache_size is
\* the sum of the cached lengths.
C5_DisjointWorkers ==
    /\ \A w \in Workers : pc[w] # "panicked"
    /\ \A w \in Workers :
         GotOk(w) /\ expect[w].kind # "unknown" => ret[w].val = expect[w].val
    /\ (\A w \in Workers : pc[w] = "idle") =>
         \A k \in Keys : settled[k].kind # "unknown" => FileOf(k) = settled[k].val
    /\ cache_size = SumLen(cache)

\* C6: once every call has returned, the file of k is what the last caller
\* put(k, _) or delete(k) left, whatever gets ran on k meanwhile.
C6_StoreKeepsLastCallerWrite ==
    (\A w \in Workers : pc[w] = "idle") =>
        \A k \in Keys :
            settled[k].kind \in {"put", "delete"} => FileOf(k) = settled[k].val

\* C7: no call ends by aborting its worker, and the lock is never left
\* poisoned for the calls of the other workers.
C7_RunsToCompletion ==
    /\ ~poisoned
    /\ \A w \in Workers : pc[w] # "panicked"

\* C8: a call whose fs::write or fs::remove_file failed returns the error with
\* the cache map and cache_size as they were, having done nothing to the
\* cache; and put reaches its cache update only after a successful write.
C8_ErrorLeavesCache ==
    [][ /\ \A w \in Workers :
             Returns(w) /\ (log'[w] \cap {"write_err", "remove_err"}) # {} =>
                /\ ret'[w] = Err
                /\ cache' = cache /\ cache_size' = cache_size
                /\ did'[w] \in {"none", "miss"}
        /\ \A w \in Workers : pc[w] = "put_cache" => "write" \in log[w]
      ]_vars

\* a put of a cached key has failed and the key is still cached
C8_Witness ==
    \E w \in Workers :
        /\ pc[w] = "idle" /\ op[w] = "put" /\ ret[w] = Err
        /\ "write_err" \in log[w]
        /\ key[w] \in DOMAIN cache

\* C9: when delete(k) returns Ok, after a successful remove or after
\* not-found, k is not in the cache as the lock is released.
C9_DeleteLeavesNoEntry ==
    [][ \A w \in Workers :
          Returns(w) /\ op[w] = "delete" /\ ret'[w].status = "ok" =>
              /\ writer = w /\ writer' = 0
              /\ key[w] \notin DOMAIN cache' ]_vars

\* a delete of a key without a file has returned Ok while other keys are cached
C9_Witness ==
    \E w \in Workers :
        /\ pc[w] = "idle" /\ op[w] = "delete" /\ ret[w].status = "ok"
        /\ "remove_notfound" \in log[w]
        /\ DOMAIN cache # {}

\* C10: a get that finds its key in the cache returns the cached value in that
\* step, having taken the lock in shared mode only and made no fs call, and
\* leaves the cache map, cache_size and the files as they were.
C10_HitTouchesNothing ==
    [][ \A w \in Workers :
          pc[w] = "get_lookup" /\ pc'[w] # "get_lookup"
            /\ key[w] \in DOMAIN cache =>
              /\ pc'[w] = "idle"
              /\ ret'[w] = Ok(Some(cache[key[w]]))
              /\ log'[w] = {"shared"}
              /\ w \in readers /\ writer = 0
              /\ store' = store /\ cache' = cache /\ cache_size' = cache_size
      ]_vars

\* a get has returned the cached value of its key
C10_Witness ==
    \E w \in Workers :
        /\ GotOk(w) /\ did[w] = "hit"
        /\ key[w] \in DOMAIN cache
        /\ ret[w].val = Some(cache[key[w]])

\* C11: a get whose key is not cached and has no file returns Ok(None) from
\* the read step, having taken the lock in shared mode only; a read that
\* fails otherwise returns the error; either way the cache map, cache_size
\* and the files are left as they were.
C11_AbsentIsNotAnError ==
    [][ \A w \in Workers :
          pc[w] = "get_read" /\ pc'[w] # "get_read" =>
            /\ "read_err" \in log'[w] => pc'[w] = "idle" /\ ret'[w] = Err
            /\ key[w] \notin DOMAIN store /\ "read_err" \notin log'[w] =>
                 /\ pc'[w] = "idle"
                 /\ ret'[w] = Ok(None)
                 /\ log'[w] = {"shared", "read_notfound"}
            /\ pc'[w] = "idle" =>
                 /\ "exclusive" \notin log'[w]
                 /\ store' = store /\ cache' = cache /\ cache_size' = cache_size
      ]_vars

\* a get of a key without a file has returned Ok(None) while other keys are
\* cached
C11_Witness ==
    \E w \in Workers :
        /\ GotOk(w) /\ ret[w].val = None
        /\ "read_notfound" \in log[w]
        /\ key[w] \notin DOMAIN store
        /\ DOMAIN cache # {}

\* C12: the cache step of a put whose value is longer than cache_size_max
\* leaves the cache map and cache_size as they were, an older entry of the
\* same key included, and the put returns Ok with the file holding the new
\* value; a get of the key is then still answered from that older entry.
C12_OversizedLeavesCache ==
    [][ \A w \in Workers :
          pc[w] = "put_cache" /\ pc'[w] # "put_cache"
            /\ Len(val[w]) > cache_size_max =>
              /\ cache' = cache /\ cache_size' = cache_size
              /\ pc'[w] = "idle" /\ ret'[w].status = "ok"
              /\ key[w] \in DOMAIN store' /\ store'[key[w]] = val[w]
              /\ CacheGet([cache |-> cache', cache_size |-> cache_size'], key[w])
                   = CacheGet(Cache, key[w])
      ]_vars

\* a get has returned the older cached value of a key whose file holds an
\* oversized value
C12_Witness ==
    \E w \in Workers :
        /\ GotOk(w) /\ did[w] = "hit"
        /\ key[w] \in DOMAIN store /\ Len(store[key[w]]) > cache_size_max
        /\ key[w] \in DOMAIN cache /\ ret[w].val = Some(cache[key[w]])
        /\ cache[key[w]] # store[key[w]]

\* C13: from every cache content the calls can reach, for every key, every
\* value no longer than cache_size_max and every iteration order, put does
\* not reach its panic.
C13_FatalBranchUnreachable ==
    \A k \in Keys, v \in Values :
        Len(v) <= cache_size_max =>
            \A order \in Orders(DOMAIN CacheDelete(Cache, k).cache) :
                ~CachePut(Cache, k, v, order).panicked

\* the keys of the shortest prefix of order whose lengths sum to at least n
NeededPrefix(c, n, order) ==
    LET enough == { i \in DOMAIN order : PrefixLen(c, order, i) >= n }
        m == IF enough = {} THEN Len(order)
             ELSE CHOOSE i \in enough : \A j \in enough : i <= j
    IN { order[i] : i \in 1..m }

\* C14: a put that has to free n = cache_size + len(v) - cache_size_max > 0
\* bytes removes, for some iteration order, exactly the shortest prefix whose
\* lengths sum to at least n, and every other entry stays with its value.
C14_EvictsOnlyNeeded ==
    [][ op'[1] = "cache_put" /\ did'[1] \in {"evict", "panic"} =>
          LET c1 == CacheDelete(Cache, key'[1])
              n == c1.cache_size + Len(val'[1]) - cache_size_max
          IN \E order \in Orders(DOMAIN c1.cache) :
                \A x \in DOMAIN c1.cache :
                    IF x \in NeededPrefix(c1, n, order)
                    THEN x \notin DOMAIN cache'
                    ELSE x \in DOMAIN cache' /\ cache'[x] = c1.cache[x]
      ]_vars

\* C15 as stated: a put of a cached key with a value no longer than
\* cache_size_max leaves the key with the new value and changes cache_size by
\* exactly len(v) - old_len.
C15_OverwriteAccounting ==
    [][ op'[1] = "cache_put" /\ key'[1] \in DOMAIN cache
          /\ Len(val'[1]) <= cache_size_max =>
            /\ CacheGet([cache |-> cache', cache_size |-> cache_size'], key'[1])
                 = Some(val'[1])
            /\ cache_size' = cache_size + Len(val'[1]) - Len(cache[key'[1]])
      ]_vars

\* C15 amended: the same, for a put that has no other entry to evict
\* (cache_size - old_len + len(v) <= cache_size_max).
C15_OverwriteWithoutEviction ==
    [][ op'[1] = "cache_put" /\ key'[1] \in DOMAIN cache
          /\ cache_size - Len(cache[key'[1]]) + Len(val'[1]) <= cache_size_max =>
            /\ CacheGet([cache |-> cache', cache_size |-> cache_size'], key'[1])
                 = Some(val'[1])
            /\ cache_size' = cache_size + Len(val'[1]) - Len(cache[key'[1]])
      ]_vars

\* a put has replaced a cached value by one of another length, beside another
\* cached key
C15_Witness ==
    /\ pc[1] = "idle" /\ op[1] = "cache_put" /\ did[1] = "overwrite"
    /\ CacheGet(Cache, key[1]) = Some(val[1])
    /\ Len(val[1]) > 1
    /\ Cardinality(DOMAIN cache) > 1

\* C16: with one worker, a get that misses the cache and reads the file of a
\* key whose last put returned Ok with a value that fits the cache (the key
\* was cached by that put, so it has been evicted since) returns that value,
\* and afterwards the key is cached with it and cache_size is at most
\* cache_size_max.
C16_ReadThroughAfterEviction ==
    \A w \in Workers :
        /\ op[w] = "get" /\ pc[w] \in {"idle", "panicked"}
        /\ "read" \in log[w] /\ "write_err" \notin log[w]
        /\ expect[w].kind = "put"
        /\ Len(expect[w].val[1]) <= cache_size_max
        => /\ pc[w] = "idle"
           /\ ret[w] = Ok(expect[w].val)
           /\ CacheGet(Cache, key[w]) = expect[w].val
           /\ cache_size <= cache_size_max

\* C17: while a worker holds the lock exclusively no worker holds it shared;
\* a worker between taking the write lock and returning is the one holder, so
\* the fs::write and fs::remove_file steps and the cache steps of two calls
\* never overlap; a lookup runs under a read guard; and the cache map,
\* cache_size and the files change only in a step of the exclusive holder.
C17_LockDiscipline ==
    [][ /\ writer # 0 => readers = {}
        /\ \A w \in Workers :
             pc[w] \in {"put_write", "put_cache", "del_remove", "del_cache"} =>
                writer = w
        /\ \A w \in Workers : pc[w] = "get_lookup" => w \in readers
        /\ (cache' # cache \/ cache_size' # cache_size) =>
             /\ writer # 0
             /\ pc[writer] \in {"put_cache", "del_cache"}
             /\ pc'[writer] # pc[writer]
        /\ store' # store =>
             /\ writer # 0
             /\ pc[writer] \in {"put_write", "del_remove"}
             /\ pc'[writer] # pc[writer]
      ]_vars

\* a put is about to update the cache while a call on another key waits for
\* the lock
C17_Witness ==
    \E w, u \in Workers :
        /\ w # u /\ key[w] # key[u]
        /\ writer = w /\ pc[w] = "put_cache" /\ op[w] = "put"
        /\ pc[u] \in {"put_lock", "del_lock"}

\* a step of worker w's current call
Step(w) ==
    \/ PutLock(w) \/ PutWrite(w) \/ PutCache(w)
    \/ GetRLock(w) \/ GetLookup(w) \/ GetRead(w)
    \/ DeleteLock(w) \/ DeleteRemove(w) \/ DeleteCache(w)

\* C18: a worker that waits for the write lock holds no read guard, and
\* whenever some call has not returned, some call can take a step.
C18_NoDeadlock ==
    /\ \A w \in Workers : pc[w] \in {"put_lock", "del_lock"} => w \notin readers
    /\ (\E w \in Workers : pc[w] \notin {"idle", "panicked"}) =>
         \E w \in Workers : ENABLED Step(w)

\* a get that missed waits for the write lock while another get holds a read
\* guard
C18_Witness ==
    \E w, u \in Workers :
        /\ w # u
        /\ pc[w] = "put_lock" /\ op[w] = "get"
        /\ u \in readers /\ pc[u] = "get_lookup"

\* C19: whenever no worker holds the lock exclusively, every cached key has a
\* file.
C19_CachedKeysHaveFiles ==
    writer = 0 => DOMAIN cache \subseteq DOMAIN store

\* a delete has removed a file and its cache entry while another key stays
\* cached
C19_Witness ==
    \E w \in Workers :
        /\ writer = 0
        /\ pc[w] = "idle" /\ op[w] = "delete" /\ did[w] = "removed"
        /\ key[w] \notin DOMAIN store
        /\ DOMAIN cache # {}

\* C20: whenever no worker holds the lock exclusively, every cached key maps
\* to the bytes its file holds.
C20_CacheCoherent ==
    writer = 0 =>
        \A k \in DOMAIN cache : FileOf(k) = Some(cache[k])

====
